---- MODULE Spec2Model ----
(***************************************************************************)
(* SpoolSync: the reconciliation tick (app/sync.py run_sync_once) between  *)
(* Inv (Spoolman) and Cloud (SimplyPrint), its scheduler and manual        *)
(* trigger (app/main.py), the settings store (app/settings.py) and the     *)
(* local cache (app/db.py).                                                *)
(*                                                                         *)
(* Units: weights are integers in 1/100 g (the code rounds every weight to *)
(* two decimals), lengths are integers in mm, density in 1/100 g/cm3,      *)
(* diameter in 1/100 mm, timestamps are values of a logical clock (0 means *)
(* "no timestamp" / "never written").                                      *)
(*                                                                         *)
(* A tick is a coroutine: it can be suspended at every awaited HTTP call.  *)
(* Each action below is one such call taken at one instant together with   *)
(* the synchronous code that follows it up to the next call.               *)
(***************************************************************************)
EXTENDS Integers, Sequences, FiniteSets, TLC

VARIABLES
    now,            \* logical clock: the last instant handed out by time.time()/now()
    dryRun,         \* settings: DRY_RUN = "true"
    lastSyncTime,   \* settings: LAST_SYNC_TIME (0: never written)
    cloud,          \* Cloud: uid -> filament record (present = FALSE: not in Cloud;
                    \* bad: a field extract_filament_data cannot convert, as "dia": null)
    inv,            \* Inv: the set of spool records
    invFilaments,   \* Inv: vendor names of the filaments (NoVendor: a filament without vendor)
    invVendors,     \* Inv: vendor names
    nextId,         \* Inv: id the next created spool gets
    cache,          \* local cache, committed spool rows: lot_nr -> row
    cacheFilaments, \* local cache, committed filament rows
    dbWriter,       \* the tick whose cache session holds SQLite's write lock, or NoProc
    pc,             \* per tick: idle | fetch | items | usage | cleanup
    tickStart,      \* per tick: sync_start_time
    lastSync,       \* per tick: last_sync_time read at tick start
    spSnap,         \* per tick: Cloud response (sp_filaments)
    lotMap,         \* per tick: lot_nr -> Inv spool as fetched (lot_map)
    smFilaments,    \* per tick: sm_filaments (grows when the tick creates one)
    smVendors,      \* per tick: sm_vendors (grows when the tick creates one)
    queue,          \* per tick: Cloud items still to process / lots still to clean up
    cur,            \* per tick: the spool just created for the item at the head of queue
    sess,           \* per tick: uncommitted spool rows of the tick's cache session
    sessFil,        \* per tick: uncommitted filament rows of the tick's cache session
    ticks,          \* number of ticks started so far
    envLeft,        \* environment events still allowed
    ev,             \* history: what the last step did
    hist,           \* history: per tick counters and flags
    scheduler,      \* _scheduler: started or not (None), and the intervals of its jobs
    stored,         \* settings: SYNC_INTERVAL_SECONDS (s) and EPSILON_GRAMS (1/100 g)
    fx              \* a pure function of app/sync.py, its arguments and its result

vars == <<now, dryRun, lastSyncTime, cloud, inv, invFilaments, invVendors, nextId,
          cache, cacheFilaments, dbWriter, pc, tickStart, lastSync, spSnap, lotMap,
          smFilaments, smVendors, queue, cur, sess, sessFil, ticks, envLeft, ev, hist,
          scheduler, stored, fx>>

\* The state of one reconciliation: everything but the scheduler, the two stored
\* numeric settings and the function under evaluation.
tickVars == <<now, lastSyncTime, cloud, inv, invFilaments, invVendors, nextId,
              cache, cacheFilaments, dbWriter, pc, tickStart, lastSync, spSnap, lotMap,
              smFilaments, smVendors, queue, cur, sess, sessFil, ticks, envLeft, hist>>

\* ------------------------------------------------------------------ bounds

MaxTicks == 2
MaxEnv == 1

\* ------------------------------------------------------- program constants

EPSILON_GRAMS == 50
FALLBACK_GPM == 298
DEFAULT_DENSITY == 124
DEFAULT_DIAMETER == 175
TOLERANCE_PERCENT == 12
DEFAULT_INTERVAL == 300
MIN_INTERVAL == 30
\* 0.01 g, in 1/1000 g (the resolution of the settings form's values)
MIN_EPSILON == 10

\* --------------------------------------------------------------- input sets

Procs == {"sched", "manual"}
NoProc == "none"
Uids == {"A", "B"}
UidOrder == <<"A", "B">>
Brand == "acme"
NoVendor == "-"
Totals == {335284, 352349}
InitLefts == {234699}
Lefts == {200000, 0}
EditWeights == {50000}

\* ----------------------------------------------------------- pure functions

Abs(x) == IF x < 0 THEN -x ELSE x

Max(a, b) == IF a >= b THEN a ELSE b

\* Python's round(): n/d (n >= 0, d > 0) to the nearest integer, ties to even.
RoundHalfEven(n, d) ==
    LET q == n \div d
        r == n % d
    IN  IF 2 * r < d THEN q
        ELSE IF 2 * r > d THEN q + 1
        ELSE IF q % 2 = 0 THEN q ELSE q + 1

\* grams_per_meter: pi * (diameter/20)^2 * 100 * density, rounded to 1/100 g;
\* 0 stands for None (a falsy input). pi is taken as 355/113.
grams_per_meter(density, diameter) ==
    IF density = 0 \/ diameter = 0 THEN 0
    ELSE RoundHalfEven(355 * diameter * diameter * density, 113 * 40000)

\* "grams_per_meter(...) or 2.98"
GpmOrFallback(density, diameter) ==
    IF grams_per_meter(density, diameter) = 0 THEN FALLBACK_GPM
    ELSE grams_per_meter(density, diameter)

calculate_weight_from_length(length_mm, density, diameter) ==
    RoundHalfEven(length_mm * GpmOrFallback(density, diameter), 1000)

StandardWeights(weight, brand) ==
    IF brand = "JAYO" /\ 100000 < weight /\ weight < 120000
    THEN <<25000, 50000, 100000, 110000, 200000, 500000, 1000000>>
    ELSE <<25000, 50000, 100000, 200000, 500000, 1000000>>

\* min(standard_weights, key=...): the first of the nearest.
Closest(weight, brand) ==
    LET sw == StandardWeights(weight, brand)
        i == CHOOSE k \in 1..Len(sw) :
                 /\ \A j \in 1..Len(sw) : Abs(sw[k] - weight) <= Abs(sw[j] - weight)
                 /\ \A j \in 1..(k - 1) : Abs(sw[j] - weight) > Abs(sw[k] - weight)
    IN  sw[i]

round_to_standard_weight(weight, brand) ==
    IF 100 * Abs(weight - Closest(weight, brand)) <= TOLERANCE_PERCENT * Closest(weight, brand)
    THEN Closest(weight, brand)
    ELSE weight

\* Variant without the max(0.0, ...) around the length used.
UsedGUnclamped(total, left) ==
    ((total - left) * GpmOrFallback(DEFAULT_DENSITY, DEFAULT_DIAMETER)) \div 1000

\* used_g of calculate_and_sync_usage: max(0, total - left) / 1000 * gpm, rounded.
UsedG(total, left) ==
    RoundHalfEven(Max(0, total - left) * GpmOrFallback(DEFAULT_DENSITY, DEFAULT_DIAMETER), 1000)

\* total_weight of ensure_spoolman_spool: the spool's initial_weight.
InitialWeight(total, brand) ==
    round_to_standard_weight(
        calculate_weight_from_length(total, DEFAULT_DENSITY, DEFAULT_DIAMETER), brand)

\* The "left" sent to Cloud when Inv is authoritative:
\* max(0, int((initial_weight - cur_used) / gpm * 1000)); int() truncates toward 0.
\* length_used of the Cloud update payload, in 1/100 percent: the share of
\* total_length that remaining_length is, or 0 when total_length is not positive.
\* The quotient is taken digit pair by digit pair to stay within 32-bit integers.
LengthUsedPercent(remaining_length, total_length) ==
    IF total_length <= 0 THEN 0
    ELSE LET q0 == remaining_length \div total_length
             r0 == remaining_length % total_length
             q1 == (r0 * 100) \div total_length
             r1 == (r0 * 100) % total_length
             q2 == (r1 * 100) \div total_length
             r2 == (r1 * 100) % total_length
             q == q0 * 10000 + q1 * 100 + q2
         IN  IF 2 * r2 < total_length THEN q
             ELSE IF 2 * r2 > total_length THEN q + 1
             ELSE IF q % 2 = 0 THEN q ELSE q + 1

RemainingLengthMm(initial_weight, cur_used) ==
    IF initial_weight - cur_used <= 0 THEN 0
    ELSE ((initial_weight - cur_used) * 1000)
             \div GpmOrFallback(DEFAULT_DENSITY, DEFAULT_DIAMETER)

\* known_materials of extract_material_type, in the order of the source.
known_materials ==
    <<"PLA+", "PETG-CF", "PLA-CF", "ABS+", "TPU-95A", "TPU-98A", "PETG", "PLA", "ABS",
      "TPU", "NYLON", "ASA", "PC", "PP", "PVA", "HIPS">>

\* str.upper() on the words the model's labels are made of.
Upper(word) ==
    CASE word = "pla" -> "PLA"
      [] word = "Silk" -> "SILK"
      [] word = "Natural" -> "NATURAL"
      [] word = "Unknown" -> "UNKNOWN"
      [] OTHER -> word

\* The four tests extract_material_type makes for one material code mat on a label,
\* given as its words (the stripped label split at spaces): the label is the code,
\* ends with " " + code, starts with code + " ", or has the code among its words.
MaterialMatches(words, mat) ==
    LET up == [k \in 1..Len(words) |-> Upper(words[k])]
    IN  \/ up = <<mat>>
        \/ Len(up) > 1 /\ up[Len(up)] = mat
        \/ Len(up) > 1 /\ up[1] = mat
        \/ \E k \in 1..Len(up) : up[k] = mat

\* extract_material_type on a label given as its words (<<>>: no type): the first
\* code of known_materials that matches; else the last word of a label of several
\* words if it has 2 to 10 characters; else the label.
extract_material_type(words) ==
    LET label == IF words = <<>> THEN <<"Unknown">> ELSE words
        hits == {k \in 1..Len(known_materials) : MaterialMatches(label, known_materials[k])}
    IN  IF hits # {}
        THEN <<known_materials[CHOOSE k \in hits : \A j \in hits : k <= j]>>
        ELSE IF Len(label) > 1 /\ Len(label[Len(label)]) >= 2 /\ Len(label[Len(label)]) <= 10
        THEN <<label[Len(label)]>>
        ELSE label

\* str.lower() on the texts the model's filaments and vendors are made of.
Lower(word) ==
    CASE word = "Acme" -> "acme"
      [] word = "PLA" -> "pla"
      [] word = "PETG" -> "petg"
      [] word = "Unknown" -> "unknown"
      [] word = "#FF0000" -> "#ff0000"
      [] OTHER -> word

\* No color_hex (None), and no vendor on an Inv filament (its name reads as "").
NoColor == "-"
NoVendorName == ""

\* The test of find_matching_filament's loop body for one Inv filament: material
\* and vendor name equal after lower(), diameters (in 1/1000 mm) less than 0.01 mm
\* apart, and the colors both present and equal after lower(), or both absent.
FilamentMatches(sm_fil, fd) ==
    /\ Lower(sm_fil.material) = Lower(fd.material)
    /\ Abs(sm_fil.diameter - fd.diameter_mm) < 10
    /\ Lower(sm_fil.vendor) = Lower(fd.brand)
    /\ IF fd.color_hex # NoColor /\ sm_fil.color_hex # NoColor
       THEN Lower(sm_fil.color_hex) = Lower(fd.color_hex)
       ELSE fd.color_hex = NoColor /\ sm_fil.color_hex = NoColor

\* find_matching_filament on the list sm_filaments: the position of the first
\* filament that matches, 0 if none does.
FirstMatch(sm_filaments, fd) ==
    IF \E k \in 1..Len(sm_filaments) : FilamentMatches(sm_filaments[k], fd)
    THEN CHOOSE k \in 1..Len(sm_filaments) :
             /\ FilamentMatches(sm_filaments[k], fd)
             /\ \A j \in 1..(k - 1) : ~FilamentMatches(sm_filaments[j], fd)
    ELSE 0

\* Variant of the vendor lookup that compares the names as they are written.
VendorLookupExact(sm_vendors, brand_name) ==
    IF brand_name = "" \/ brand_name = "Unknown" THEN 0
    ELSE IF \E k \in 1..Len(sm_vendors) : sm_vendors[k] = brand_name
    THEN CHOOSE k \in 1..Len(sm_vendors) :
             sm_vendors[k] = brand_name /\ \A j \in 1..(k - 1) : sm_vendors[j] # brand_name
    ELSE -1

\* The lookup of ensure_vendor in sm_vendors (the vendors' names in the order of
\* the map): 0 for no brand or "Unknown" (no vendor), the position of the first
\* vendor whose name equals the brand after lower(), -1 on a miss.
VendorLookup(sm_vendors, brand_name) ==
    IF brand_name = "" \/ brand_name = "Unknown" THEN 0
    ELSE IF \E k \in 1..Len(sm_vendors) : Lower(sm_vendors[k]) = Lower(brand_name)
    THEN CHOOSE k \in 1..Len(sm_vendors) :
             /\ Lower(sm_vendors[k]) = Lower(brand_name)
             /\ \A j \in 1..(k - 1) : Lower(sm_vendors[j]) # Lower(brand_name)
    ELSE -1

\* ------------------------------------------------------------ local cache

\* The filament row sync_single_filament builds for the one profile the Cloud items
\* of a tick share ("-": no color_hex).
ProfileRow ==
    [name |-> "PLA", material |-> "PLA", diameter_mm |-> DEFAULT_DIAMETER, color_hex |-> "-"]

\* The WHERE clause of upsert_filament: name, material and diameter_mm.
SameFilament(r, f) ==
    r.name = f.name /\ r.material = f.material /\ r.diameter_mm = f.diameter_mm

\* upsert_filament on the filament table rows: the matching row takes f's other
\* columns, or f is inserted.
upsert_filament(rows, f) ==
    IF \E r \in rows : SameFilament(r, f)
    THEN {IF SameFilament(r, f) THEN [r EXCEPT !.color_hex = f.color_hex] ELSE r : r \in rows}
    ELSE rows \cup {f}

\* The filament table once get_session has committed the rows a session wrote.
CommittedFilaments(c, rows) ==
    {r \in c : ~\E f \in rows : SameFilament(r, f)} \cup rows

\* --------------------------------------------------- settings and scheduler

\* Variant that stores the interval as posted.
ClampIntervalNone(i) == i

\* settings_save: str(max(30, int(SYNC_INTERVAL_SECONDS))).
ClampInterval(i) == Max(MIN_INTERVAL, i)

\* settings_save: f"{max(0.01, float(EPSILON_GRAMS)):.2f}". The posted value e is in
\* 1/1000 g, the stored text has two decimals (1/100 g).
ClampEpsilon(e) == RoundHalfEven(Max(MIN_EPSILON, e), 10)

\* _scheduler = None
NoScheduler == [started |-> FALSE, jobs |-> <<>>]

\* Variant in which a start on a running scheduler adds its job again.
start_schedulerAgain(s, interval) ==
    [started |-> TRUE, jobs |-> Append(s.jobs, interval)]

\* start_scheduler: nothing if _scheduler is set; else a new scheduler with one
\* interval job.
start_scheduler(s, interval) ==
    IF s.started THEN s ELSE [started |-> TRUE, jobs |-> <<interval>>]

\* reconfigure_scheduler: nothing if _scheduler is not set; else every job is removed
\* and one job with the current interval is added.
reconfigure_scheduler(s, interval) ==
    IF ~s.started THEN s ELSE [s EXCEPT !.jobs = <<interval>>]

\* No function under evaluation.
FxNone == [fn |-> "-", x |-> 0, y |-> 0, z |-> 0, w |-> 0, s |-> <<>>, out |-> 0,
           outs |-> <<>>, pct |-> 0, done |-> FALSE,
           items |-> <<>>, snapshot |-> <<>>, filaments |-> <<>>, vendors |-> <<>>,
           made |-> <<>>, used |-> <<>>, failed |-> 0]

\* -------------------------------------------------------------------- state

NoSpool == [id |-> 0, lot_nr |-> "-", used_weight |-> 0, initial_weight |-> 0,
            archived |-> FALSE, last_used |-> 0, by |-> "-", origin |-> "-"]

\* "lens" names the length field of the record that is not a number ("ok": both are).
NoFil == [present |-> FALSE, total |-> 0, left |-> 0, last_used |-> 0, id |-> FALSE,
          bad |-> FALSE, lens |-> "ok"]

NoRow == [present |-> FALSE, used |-> 0, archived |-> FALSE]

EvNone == [p |-> "-", kind |-> "none", uid |-> "-", branch |-> "-", calls |-> {},
           ok |-> TRUE, dry |-> FALSE, total |-> 0, left |-> 0, used_g |-> 0,
           cur_used |-> 0, sm_ts |-> 0, last_sync |-> 0, target |-> 0,
           wasArchived |-> FALSE, byRec |-> FALSE, fromMap |-> FALSE,
           order |-> <<>>, failedCalls |-> {}, success |-> TRUE, liveUsed |-> 0,
           at |-> "-", filament |-> "-", resp |-> {}, succ |-> {}, errs |-> {}, stale |-> {},
           cleaned |-> {}, sched |-> NoScheduler, formInterval |-> 0, formEpsilon |-> 0,
           rows |-> {}, row |-> ProfileRow, liveInitial |-> 0, readArchived |-> FALSE,
           others |-> {}]

Running == {p \in Procs : pc[p] # "idle"}

\* lot_map of run_sync_once: a dict comprehension over the spool list, so of several
\* spools with one lot_nr the last listed (the highest id) is kept.
\* Inv's spool list holds every spool with its "archived" flag, as the test on the
\* listed spools in cleanup_deleted_spools expects.
LotMapOf(spools) ==
    [u \in Uids |->
        IF \E s \in spools : s.lot_nr = u
        THEN CHOOSE s \in spools :
                 /\ s.lot_nr = u
                 /\ \A t \in spools : t.lot_nr = u => t.id <= s.id
        ELSE NoSpool]

\* sp_filaments in response order.
ItemsOf(sp) == SelectSeq(UidOrder, LAMBDA u : sp[u].present)

\* Variant in which cleanup does not skip the lots still present in Cloud.
StaleOfAll(lm, sp) == SelectSeq(UidOrder, LAMBDA u : lm[u] # NoSpool)

\* The lots cleanup_deleted_spools visits: in lot_map and not in sp_uids.
StaleOf(lm, sp) == SelectSeq(UidOrder, LAMBDA u : lm[u] # NoSpool /\ ~sp[u].present)

\* The state the service starts in, with Cloud c, Inv i and LAST_SYNC_TIME lst.
InitState(c, i, lst, sch, f) ==
    /\ now = 2
    /\ dryRun = FALSE
    /\ lastSyncTime = lst
    /\ cloud = c
    /\ inv = i
    /\ invFilaments = {}
    /\ invVendors = {}
    /\ nextId = 2
    /\ cache = [u \in Uids |-> NoRow]
    /\ cacheFilaments = {}
    /\ dbWriter = NoProc
    /\ pc = [p \in Procs |-> "idle"]
    /\ tickStart = [p \in Procs |-> 0]
    /\ lastSync = [p \in Procs |-> 0]
    /\ spSnap = [p \in Procs |-> [u \in Uids |-> NoFil]]
    /\ lotMap = [p \in Procs |-> [u \in Uids |-> NoSpool]]
    /\ smFilaments = [p \in Procs |-> {}]
    /\ smVendors = [p \in Procs |-> {}]
    /\ queue = [p \in Procs |-> <<>>]
    /\ cur = [p \in Procs |-> NoSpool]
    /\ sess = [p \in Procs |-> [u \in Uids |-> NoRow]]
    /\ sessFil = [p \in Procs |-> {}]
    /\ ticks = 0
    /\ envLeft = MaxEnv
    /\ ev = EvNone
    /\ stored = [interval |-> DEFAULT_INTERVAL, epsilon |-> EPSILON_GRAMS]
    /\ scheduler = sch
    /\ fx = f
    /\ hist = [issued |-> [p \in Procs |-> FALSE],
               failed |-> [p \in Procs |-> FALSE],
               invAuth |-> [p \in Procs |-> FALSE],
               cloudChanged |-> [p \in Procs |-> FALSE],
               solo |-> [p \in Procs |-> FALSE],
               dryAll |-> [p \in Procs |-> FALSE],
               after |-> [p \in Procs |-> "none"],
               settled |-> "none",
               lastDone |-> lst,
               succ |-> [p \in Procs |-> {}],
               errs |-> [p \in Procs |-> {}],
               cleaned |-> [p \in Procs |-> {}]]

\* The state once startup() has run start_scheduler on the default settings.
InitWith(c, i, lst) ==
    InitState(c, i, lst, start_scheduler(NoScheduler, DEFAULT_INTERVAL), FxNone)

\* The service starts on its database and the two upstream systems as they are:
\* LAST_SYNC_TIME is unset (0) or holds the start of a tick of an earlier run, Cloud
\* holds filament A, and Inv is empty or holds a spool the user entered for it
\* (with the user's used_weight and last-modified time, archived or not).
Init ==
    \E t \in Totals, l \in InitLefts, i \in BOOLEAN, lst \in {0, 1} :
        \E sp \in {{}} \cup
                   {{[id |-> 1, lot_nr |-> "A", used_weight |-> w, initial_weight |-> 100000,
                      archived |-> a, last_used |-> 2, by |-> "user", origin |-> "user"]} :
                        w \in EditWeights, a \in BOOLEAN} :
            InitWith([u \in Uids |->
                         IF u = "A"
                         THEN [present |-> TRUE, total |-> t, left |-> l, last_used |-> 0,
                               id |-> i, bad |-> FALSE, lens |-> "ok"]
                         ELSE NoFil],
                     sp, lst)

\* ------------------------------------------------------------ history only

\* The history after tick p issued calls (issuedNow), had one fail (failedNow), found
\* Inv authoritative (invAuthNow) or changed Cloud itself (cloudNow).
HistStep(p, issuedNow, failedNow, invAuthNow, cloudNow) ==
    [hist EXCEPT !.issued[p] = @ \/ issuedNow,
                 !.failed[p] = @ \/ failedNow,
                 !.invAuth[p] = @ \/ invAuthNow,
                 !.cloudChanged[p] = @ \/ cloudNow]

\* The history h after sync_single_filament has returned for item u of tick p:
\* run_sync_once counts the item in success_count or in error_count.
HistItem(h, p, u, success) ==
    [h EXCEPT !.succ[p] = IF success THEN @ \cup {u} ELSE @,
              !.errs[p] = IF success THEN @ ELSE @ \cup {u}]

\* The history h after cleanup_deleted_spools has handled lot u in tick p.
HistClean(h, p, u) == [h EXCEPT !.cleaned[p] = @ \cup {u}]

\* The history h once tick p has returned: its counters are gone.
HistEnd(h, p) == [h EXCEPT !.succ[p] = {}, !.errs[p] = {}, !.cleaned[p] = {}]

\* What tick p has done by the time it returns, for the history's last event.
EvEnd(p, kind) ==
    [EvNone EXCEPT !.p = p, !.kind = kind, !.dry = dryRun, !.at = pc[p],
                   !.resp = {u \in Uids : spSnap[p][u].present},
                   !.succ = hist.succ[p], !.errs = hist.errs[p],
                   !.stale = {u \in Uids : lotMap[p][u] # NoSpool /\ ~spSnap[p][u].present},
                   !.cleaned = hist.cleaned[p]]

\* The history after an event of the environment: no running tick ran alone, and the
\* state no longer is the one the last completed tick left.
HistEnv(dry) ==
    [hist EXCEPT !.solo = [p \in Procs |-> FALSE],
                 !.dryAll = [p \in Procs |-> hist.dryAll[p] /\ dry],
                 !.settled = "none"]

\* --------------------------------------------------- the tick: run_sync_once

\* The tick's locals once it has returned.
Reset(f, p, v) == [f EXCEPT ![p] = v]

EndTick(p) ==
    /\ pc' = [pc EXCEPT ![p] = "idle"]
    /\ tickStart' = Reset(tickStart, p, 0)
    /\ lastSync' = Reset(lastSync, p, 0)
    /\ spSnap' = Reset(spSnap, p, [u \in Uids |-> NoFil])
    /\ lotMap' = Reset(lotMap, p, [u \in Uids |-> NoSpool])
    /\ smFilaments' = Reset(smFilaments, p, {})
    /\ smVendors' = Reset(smVendors, p, {})
    /\ queue' = Reset(queue, p, <<>>)
    /\ cur' = Reset(cur, p, NoSpool)
    /\ sess' = Reset(sess, p, [u \in Uids |-> NoRow])
    /\ sessFil' = Reset(sessFil, p, {})

\* sync_start_time = time.time(); last_sync_time = float(S.get("LAST_SYNC_TIME", "0")).
\* The scheduler's job runs one instance at a time (the interval job added by
\* start_scheduler); POST /sync awaits run_sync_once directly.
TickStart(p) ==
    /\ pc[p] = "idle"
    /\ ticks < MaxTicks
    /\ ticks' = ticks + 1
    /\ now' = now + 1
    /\ pc' = [pc EXCEPT ![p] = "fetch"]
    /\ tickStart' = [tickStart EXCEPT ![p] = now']
    /\ lastSync' = [lastSync EXCEPT ![p] = lastSyncTime]
    /\ ev' = [EvNone EXCEPT !.p = p, !.kind = "start", !.dry = dryRun]
    /\ hist' = [hist EXCEPT
                   !.issued[p] = FALSE, !.failed[p] = FALSE, !.invAuth[p] = FALSE,
                   !.cloudChanged[p] = FALSE,
                   !.dryAll = [q \in Procs |-> IF q = p THEN dryRun ELSE hist.dryAll[q]],
                   !.solo = [q \in Procs |-> IF q = p THEN Running = {} ELSE FALSE],
                   !.after[p] = IF Running = {} THEN hist.settled ELSE "none"]
    /\ UNCHANGED <<dryRun, lastSyncTime, cloud, inv, invFilaments, invVendors, nextId,
                   cache, cacheFilaments, dbWriter, spSnap, lotMap, smFilaments,
                   smVendors, queue, cur, sess, sessFil, envLeft>>

\* Step 1 of run_sync_once, all five fetches answered: the snapshots, lot_map, sp_uids.
\* Without Cloud items the "with get_session()" block is empty and cleanup is next.
FetchOk(p) ==
    /\ pc[p] = "fetch"
    /\ spSnap' = [spSnap EXCEPT ![p] = cloud]
    /\ lotMap' = [lotMap EXCEPT ![p] = LotMapOf(inv)]
    /\ smFilaments' = [smFilaments EXCEPT ![p] = invFilaments]
    /\ smVendors' = [smVendors EXCEPT ![p] = invVendors]
    /\ IF ItemsOf(cloud) # <<>>
       THEN /\ pc' = [pc EXCEPT ![p] = "items"]
            /\ queue' = [queue EXCEPT ![p] = ItemsOf(cloud)]
       ELSE /\ pc' = [pc EXCEPT ![p] = "cleanup"]
            /\ queue' = [queue EXCEPT ![p] = StaleOf(LotMapOf(inv), cloud)]
    /\ ev' = [EvNone EXCEPT !.p = p, !.kind = "fetch", !.dry = dryRun]
    /\ UNCHANGED <<now, dryRun, lastSyncTime, cloud, inv, invFilaments, invVendors,
                   nextId, cache, cacheFilaments, dbWriter, tickStart, lastSync, cur,
                   sess, sessFil, ticks, envLeft, hist>>

\* Variant in which the abort path falls through to the LAST_SYNC_TIME write.
AbortSyncTimeWritten(p) == tickStart[p]

\* LAST_SYNC_TIME after a tick that returns from step 1: the "return" of the except
\* block and of the response-format checks comes before S.set.
AbortSyncTime(p) == lastSyncTime

\* Step 1 fails: one of the fetches raises, or the Cloud response has no "filament"
\* mapping. run_sync_once returns.
FetchFail(p) ==
    /\ pc[p] = "fetch"
    /\ lastSyncTime' = AbortSyncTime(p)
    /\ \E why \in {"fetch_error", "shape_error"} :
           ev' = [EvNone EXCEPT !.p = p, !.kind = why, !.dry = dryRun]
    /\ EndTick(p)
    /\ UNCHANGED <<now, dryRun, cloud, inv, invFilaments, invVendors,
                   nextId, cache, cacheFilaments, dbWriter, ticks, envLeft, hist>>

\* Variant in which an item stays at the head of the loop after it was processed.
RemainingRetry(q, wrote) == q

\* Variant in which an item that raised ends the item loop.
RemainingNoneAfterError(q, wrote) == IF wrote THEN Tail(q) ELSE <<>>

\* The items the "for sp_filament in sp_filaments" loop still has to visit after the
\* item at the head of q; wrote is FALSE when sync_single_filament caught an error.
Remaining(q, wrote) == Tail(q)

\* The item at the head of the queue is done. wrote: upsert_filament and upsert_spool
\* stored their rows in the tick's session, which holds SQLite's write lock from its
\* first write. After the last item the "with get_session()" block exits: the
\* session commits and the lock is released; cleanup is next.
\* Variant in which leaving the session block stores nothing.
CommittedNothing(c, rows) == c

\* Variant in which leaving the session block stores the last row only.
CommittedLast(c, rows) ==
    [v \in Uids |-> IF rows[v].present /\ v = UidOrder[Len(UidOrder)] THEN rows[v] ELSE c[v]]

\* The spool table once get_session has committed the rows a tick's session wrote.
Committed(c, rows) == [v \in Uids |-> IF rows[v].present THEN rows[v] ELSE c[v]]

AfterItem(p, u, wrote, row) ==
    LET rest == Remaining(queue[p], wrote)
        s2 == IF wrote THEN [sess[p] EXCEPT ![u] = row] ELSE sess[p]
        f2 == IF wrote THEN upsert_filament(sessFil[p], ProfileRow) ELSE sessFil[p]
    IN  /\ cur' = [cur EXCEPT ![p] = NoSpool]
        /\ IF rest # <<>>
           THEN /\ pc' = [pc EXCEPT ![p] = "items"]
                /\ queue' = [queue EXCEPT ![p] = rest]
                /\ sess' = [sess EXCEPT ![p] = s2]
                /\ sessFil' = [sessFil EXCEPT ![p] = f2]
                /\ dbWriter' = IF wrote THEN p ELSE dbWriter
                /\ UNCHANGED <<cache, cacheFilaments>>
           ELSE /\ pc' = [pc EXCEPT ![p] = "cleanup"]
                /\ queue' = [queue EXCEPT ![p] = StaleOf(lotMap[p], spSnap[p])]
                /\ cache' = Committed(cache, s2)
                /\ cacheFilaments' = CommittedFilaments(cacheFilaments, f2)
                /\ sess' = [sess EXCEPT ![p] = [v \in Uids |-> NoRow]]
                /\ sessFil' = [sessFil EXCEPT ![p] = {}]
                /\ dbWriter' = IF wrote \/ dbWriter = p THEN NoProc ELSE dbWriter

\* Variant in which the dry-run guards are never taken.
DryRunIgnored == FALSE

\* S.get("DRY_RUN", "false") == "true"
DryRunActive == dryRun

\* "if sm_updated and last_sync_time:" and "sm_timestamp > last_sync_time"
IsNewer(sm_ts, last_sync) == sm_ts # 0 /\ last_sync # 0 /\ sm_ts > last_sync

\* Variant that compares the difference with twice the threshold.
BranchEpsDouble(eps, sm_ts, last_sync, used_g, cur_used) ==
    IF IsNewer(sm_ts, last_sync) /\ Abs(used_g - cur_used) > 2 * eps THEN "inv_auth"
    ELSE IF Abs(used_g - cur_used) <= 2 * eps THEN "noop"
    ELSE "cloud_auth"

\* The direction calculate_and_sync_usage takes when EPS() returns eps.
BranchEps(eps, sm_ts, last_sync, used_g, cur_used) ==
    IF IsNewer(sm_ts, last_sync) /\ Abs(used_g - cur_used) > eps THEN "inv_auth"
    ELSE IF Abs(used_g - cur_used) <= eps THEN "noop"
    ELSE "cloud_auth"

\* The direction calculate_and_sync_usage takes on the default EPSILON_GRAMS.
Branch(sm_ts, last_sync, used_g, cur_used) ==
    BranchEps(EPSILON_GRAMS, sm_ts, last_sync, used_g, cur_used)

\* Variant in which the update sends the spool's current used_weight back.
UsedWeightPayloadStale(used_g, cur_used) == cur_used

\* update_payload["used_weight"] of the Cloud-authoritative update.
UsedWeightPayload(used_g, cur_used) == used_g

\* "archived": sm_spool.get("archived", False) of the Cloud-authoritative update.
ArchivedPayload(sm) == sm.archived

\* Variant in which the update also sends initial_weight, computed from the Cloud total.
UpdatedSpoolReinit(s, sm, fd, used_g, cur_used, ts) ==
    [s EXCEPT !.used_weight = UsedWeightPayload(used_g, cur_used),
              !.archived = ArchivedPayload(sm),
              !.lot_nr = sm.lot_nr,
              !.last_used = ts,
              !.initial_weight = InitialWeight(fd.total, Brand),
              !.by = "rec"]

\* The Inv spool s after update_spool with update_payload: used_weight and
\* last_used are new; archived and lot_nr are the values read from Inv (sm);
\* no other field of the spool is in the payload.
UpdatedSpool(s, sm, fd, used_g, cur_used, ts) ==
    [s EXCEPT !.used_weight = UsedWeightPayload(used_g, cur_used),
              !.archived = ArchivedPayload(sm),
              !.lot_nr = sm.lot_nr,
              !.last_used = ts,
              !.by = "rec"]

\* calculate_and_sync_usage for Cloud item u and Inv spool sm (from lot_map, or just
\* created), then upsert_spool.
Usage(p, u, sm) ==
    LET fd == spSnap[p][u]
        used_g == UsedG(fd.total, fd.left)
        cur_used == sm.used_weight
        br == IF fd.lens # "ok" THEN "invalid_length"
              ELSE Branch(sm.last_used, lastSync[p], used_g, cur_used)
        live == {s \in inv : s.id = sm.id}
        base == [EvNone EXCEPT !.p = p, !.kind = "usage", !.uid = u, !.branch = br,
                               !.dry = dryRun, !.total = fd.total, !.left = fd.left,
                               !.used_g = used_g, !.cur_used = cur_used,
                               !.sm_ts = sm.last_used, !.last_sync = lastSync[p],
                               !.target = sm.id,
                               !.wasArchived = (\E s \in live : s.archived),
                               !.byRec = (sm.by = "rec" /\ \A s \in live : s.by = "rec"),
                               !.fromMap = (pc[p] = "items"),
                               !.liveUsed = IF live = {} THEN -1
                                            ELSE (CHOOSE s \in live : TRUE).used_weight,
                               !.liveInitial = IF live = {} THEN -1
                                               ELSE (CHOOSE s \in live : TRUE).initial_weight,
                               !.readArchived = sm.archived,
                               !.others = inv \ live]
        pre == IF pc[p] = "items" THEN <<"upsert_filament">> ELSE <<>>
        initial_weight == IF sm.initial_weight # 0 THEN sm.initial_weight
                          ELSE InitialWeight(fd.total, Brand)
    IN  \/ \* float(total) - float(left) raises: a warning, and the used weight read
           \* from Inv is returned
           /\ br = "invalid_length"
           /\ ev' = [base EXCEPT !.used_g = cur_used, !.order = pre \o <<"upsert_spool">>]
           /\ hist' = HistItem(HistStep(p, FALSE, FALSE, FALSE, FALSE), p, u, TRUE)
           /\ AfterItem(p, u, TRUE, [present |-> TRUE, used |-> cur_used, archived |-> sm.archived])
           /\ UNCHANGED <<now, cloud, inv>>
        \/ \* Inv authoritative, nothing sent: dry-run, or the Cloud record has no id
           /\ br = "inv_auth"
           /\ DryRunActive \/ ~fd.id
           /\ ev' = [base EXCEPT !.order = pre \o <<"upsert_spool">>]
           /\ hist' = HistItem(HistStep(p, FALSE, FALSE, TRUE, FALSE), p, u, TRUE)
           /\ AfterItem(p, u, TRUE, [present |-> TRUE, used |-> cur_used, archived |-> sm.archived])
           /\ UNCHANGED <<now, cloud, inv>>
        \/ \* Inv authoritative: update_simplyprint_usage (its failure is only logged)
           /\ br = "inv_auth"
           /\ ~DryRunActive /\ fd.id
           /\ \E ok \in BOOLEAN :
                  /\ ok => cloud[u].present
                  /\ cloud' = IF ok
                              THEN [cloud EXCEPT ![u].left = RemainingLengthMm(initial_weight, cur_used)]
                              ELSE cloud
                  /\ ev' = [base EXCEPT !.calls = {"cloud_update"}, !.ok = ok,
                                        !.order = pre \o <<"cloud_update", "upsert_spool">>,
                                        !.failedCalls = IF ok THEN {} ELSE {"cloud_update"}]
                  /\ hist' = HistItem(HistStep(p, TRUE, ~ok, TRUE, ok), p, u, TRUE)
           /\ AfterItem(p, u, TRUE, [present |-> TRUE, used |-> cur_used, archived |-> sm.archived])
           /\ UNCHANGED <<now, inv>>
        \/ \* no update needed, or dry-run
           /\ br = "noop" \/ (br = "cloud_auth" /\ DryRunActive)
           /\ ev' = [base EXCEPT !.order = pre \o <<"upsert_spool">>]
           /\ hist' = HistItem(HistStep(p, FALSE, FALSE, FALSE, FALSE), p, u, TRUE)
           /\ AfterItem(p, u, TRUE, [present |-> TRUE, used |-> used_g, archived |-> sm.archived])
           /\ UNCHANGED <<now, cloud, inv>>
        \/ \* Cloud authoritative: update_spool (its failure is only logged)
           /\ br = "cloud_auth"
           /\ ~DryRunActive
           /\ now' = IF fd.last_used # 0 THEN now ELSE now + 1
           /\ \E ok \in BOOLEAN :
                  /\ ok => live # {}
                  /\ inv' = IF ok
                            THEN (inv \ live) \cup
                                 {UpdatedSpool(s, sm, fd, used_g, cur_used,
                                               IF fd.last_used # 0 THEN fd.last_used ELSE now') :
                                      s \in live}
                            ELSE inv
                  /\ ev' = [base EXCEPT !.calls = {"update_spool"}, !.ok = ok,
                                        !.order = pre \o <<"update_spool", "upsert_spool">>,
                                        !.failedCalls = IF ok THEN {} ELSE {"update_spool"}]
                  /\ hist' = HistItem(HistStep(p, TRUE, ~ok, FALSE, FALSE), p, u, TRUE)
           /\ AfterItem(p, u, TRUE, [present |-> TRUE, used |-> used_g, archived |-> sm.archived])
           /\ UNCHANGED cloud

\* extract_filament_data raises on the item (float(None) for "dia": null, or
\* None.strip() for "brand": null): sync_single_filament logs it and returns False
\* before any cache write and any upstream call.
ItemBad(p) ==
    /\ pc[p] = "items"
    /\ spSnap[p][Head(queue[p])].bad
    /\ ev' = [EvNone EXCEPT !.p = p, !.kind = "item", !.uid = Head(queue[p]),
                            !.branch = "data_error", !.ok = FALSE, !.dry = dryRun,
                            !.success = FALSE]
    /\ hist' = HistItem(HistStep(p, FALSE, TRUE, FALSE, FALSE), p, Head(queue[p]), FALSE)
    /\ AfterItem(p, Head(queue[p]), FALSE, NoRow)
    /\ UNCHANGED <<now, dryRun, lastSyncTime, cloud, inv, invFilaments, invVendors, nextId,
                   tickStart, lastSync, spSnap, lotMap, smFilaments, smVendors, ticks, envLeft>>

\* upsert_filament raises "database is locked": another tick's session holds the
\* write lock. sync_single_filament returns False before any upstream call.
ItemLocked(p) ==
    /\ pc[p] = "items"
    /\ ~spSnap[p][Head(queue[p])].bad
    /\ dbWriter \notin {p, NoProc}
    /\ ev' = [EvNone EXCEPT !.p = p, !.kind = "item", !.uid = Head(queue[p]),
                            !.branch = "cache_error", !.ok = FALSE, !.dry = dryRun,
                            !.order = <<"upsert_filament">>,
                            !.failedCalls = {"upsert_filament"}, !.success = FALSE]
    /\ hist' = HistItem(HistStep(p, FALSE, TRUE, FALSE, FALSE), p, Head(queue[p]), FALSE)
    /\ AfterItem(p, Head(queue[p]), FALSE, NoRow)
    /\ UNCHANGED <<now, dryRun, lastSyncTime, cloud, inv, invFilaments, invVendors, nextId,
                   tickStart, lastSync, spSnap, lotMap, smFilaments, smVendors, ticks, envLeft>>

\* sync_single_filament, the uid is in lot_map: upsert_filament, then usage.
ItemExisting(p) ==
    /\ pc[p] = "items"
    /\ ~spSnap[p][Head(queue[p])].bad
    /\ dbWriter \in {p, NoProc}
    /\ lotMap[p][Head(queue[p])] # NoSpool
    /\ Usage(p, Head(queue[p]), lotMap[p][Head(queue[p])])
    /\ UNCHANGED <<dryRun, lastSyncTime, invFilaments, invVendors, nextId, tickStart,
                   lastSync, spSnap, lotMap, smFilaments, smVendors, ticks, envLeft>>

\* sync_single_filament, the uid is not in lot_map and DRY_RUN is "true":
\* ensure_spoolman_spool returns None, used_g stays 0.0.
ItemDry(p) ==
    /\ pc[p] = "items"
    /\ ~spSnap[p][Head(queue[p])].bad
    /\ dbWriter \in {p, NoProc}
    /\ lotMap[p][Head(queue[p])] = NoSpool
    /\ DryRunActive
    /\ ev' = [EvNone EXCEPT !.p = p, !.kind = "item", !.uid = Head(queue[p]),
                            !.branch = "dry_create", !.dry = dryRun,
                            !.order = <<"upsert_filament", "upsert_spool">>]
    /\ hist' = HistItem(hist, p, Head(queue[p]), TRUE)
    /\ AfterItem(p, Head(queue[p]), TRUE, [present |-> TRUE, used |-> 0, archived |-> FALSE])
    /\ UNCHANGED <<now, dryRun, lastSyncTime, cloud, inv, invFilaments, invVendors, nextId,
                   tickStart, lastSync, spSnap, lotMap, smFilaments, smVendors, ticks,
                   envLeft>>

\* find_matching_filament: material, diameter and colour are those of the one profile
\* the model's Cloud items share, so the vendor name decides.
find_matching_filament(sm_filaments, brand) == brand \in sm_filaments

\* The spool_payload of ensure_spoolman_spool, as Inv stores it.
NewSpool(id, u, fd) ==
    [id |-> id, lot_nr |-> u, used_weight |-> 0,
     initial_weight |-> InitialWeight(fd.total, Brand),
     archived |-> FALSE, last_used |-> fd.last_used, by |-> "rec", origin |-> "rec"]

\* Variant that goes on to create_spool whether or not a filament id is there.
SpoolCallAlways(fOk) == TRUE

\* create_spool is called once a filament id is there: matched, or just created.
SpoolCall(fOk) == fOk

\* sync_single_filament, the uid is not in lot_map and DRY_RUN is not "true":
\* ensure_spoolman_spool reuses or creates the filament (creating the vendor first)
\* and creates the spool. vOk, fOk, sOk: create_vendor, create_filament and
\* create_spool succeed. A failed create_vendor is logged and the filament is created
\* without vendor; a failed create_filament or create_spool ends the item without spool.
ItemCreate(p) ==
    /\ pc[p] = "items"
    /\ ~spSnap[p][Head(queue[p])].bad
    /\ dbWriter \in {p, NoProc}
    /\ lotMap[p][Head(queue[p])] = NoSpool
    /\ ~DryRunActive
    /\ LET u == Head(queue[p])
           fd == spSnap[p][u]
           match == find_matching_filament(smFilaments[p], Brand)
           known == Brand \in smVendors[p]
           \* calculate_weight_from_length raises on a total that is not a number,
           \* before create_filament and before create_spool
           badTotal == fd.lens = "total"
       IN  \E vOk, fOk, sOk \in BOOLEAN :
               /\ (match \/ known) => vOk
               /\ match => fOk
               /\ (badTotal /\ ~match) => ~fOk
               /\ LET vCall == ~match /\ ~known
                      fCall == ~match /\ ~badTotal
                      sCall == ~badTotal /\ SpoolCall(fOk)
                      vendorId == known \/ (vCall /\ vOk)
                      filName == IF vendorId THEN Brand ELSE NoVendor
                      calls == (IF vCall THEN {"create_vendor"} ELSE {})
                               \cup (IF fCall THEN {"create_filament"} ELSE {})
                               \cup (IF sCall THEN {"create_spool"} ELSE {})
                      order == <<"upsert_filament">>
                               \o (IF vCall THEN <<"create_vendor">> ELSE <<>>)
                               \o (IF fCall THEN <<"create_filament">> ELSE <<>>)
                               \o (IF sCall THEN <<"create_spool">> ELSE <<>>)
                               \o (IF sCall /\ sOk THEN <<>> ELSE <<"upsert_spool">>)
                      failedCalls == (IF vCall /\ ~vOk THEN {"create_vendor"} ELSE {})
                                     \cup (IF fCall /\ ~fOk THEN {"create_filament"} ELSE {})
                                     \cup (IF sCall /\ ~sOk THEN {"create_spool"} ELSE {})
                  IN  /\ ~sCall => ~sOk
                      /\ invVendors' = IF vCall /\ vOk THEN invVendors \cup {Brand} ELSE invVendors
                      /\ smVendors' = IF vCall /\ vOk
                                      THEN [smVendors EXCEPT ![p] = @ \cup {Brand}]
                                      ELSE smVendors
                      /\ invFilaments' = IF fCall /\ fOk THEN invFilaments \cup {filName}
                                         ELSE invFilaments
                      /\ smFilaments' = IF fCall /\ fOk
                                        THEN [smFilaments EXCEPT ![p] = @ \cup {filName}]
                                        ELSE smFilaments
                      /\ ev' = [EvNone EXCEPT !.p = p, !.kind = "item", !.uid = u,
                                              !.branch = "create", !.calls = calls,
                                              !.ok = (vOk /\ fOk /\ sOk), !.dry = dryRun,
                                              !.target = IF sOk THEN nextId ELSE 0,
                                              !.order = order, !.failedCalls = failedCalls,
                                              !.filament = filName]
                      /\ hist' = IF sOk
                                 THEN HistStep(p, TRUE, ~(vOk /\ fOk /\ sOk), FALSE, FALSE)
                                 ELSE HistItem(HistStep(p, calls # {}, failedCalls # {},
                                                        FALSE, FALSE), p, u, TRUE)
                      /\ IF sOk
                         THEN /\ inv' = inv \cup {NewSpool(nextId, u, fd)}
                              /\ nextId' = nextId + 1
                              /\ cur' = [cur EXCEPT ![p] = NewSpool(nextId, u, fd)]
                              /\ pc' = [pc EXCEPT ![p] = "usage"]
                              /\ sessFil' = [sessFil EXCEPT ![p] = upsert_filament(@, ProfileRow)]
                              /\ dbWriter' = p
                              /\ UNCHANGED <<queue, sess, cache, cacheFilaments>>
                         ELSE /\ AfterItem(p, u, TRUE,
                                           [present |-> TRUE, used |-> 0, archived |-> FALSE])
                              /\ UNCHANGED <<inv, nextId>>
    /\ UNCHANGED <<now, dryRun, lastSyncTime, cloud, tickStart, lastSync, spSnap, lotMap,
                   ticks, envLeft>>

\* create_spool has answered: calculate_and_sync_usage on the spool it returned.
UsageCreated(p) ==
    /\ pc[p] = "usage"
    /\ Usage(p, Head(queue[p]), cur[p])
    /\ UNCHANGED <<dryRun, lastSyncTime, invFilaments, invVendors, nextId, tickStart,
                   lastSync, spSnap, lotMap, smFilaments, smVendors, ticks, envLeft>>

\* cleanup_deleted_spools, one lot of lot_map that is not in sp_uids: skipped when
\* archived or in dry-run, archived when used_weight > 0, else deleted. A failed call
\* is logged.
\* Variant that deletes every spool that is not archived, used or not.
CleanupDecisionNoArchive(sm) ==
    IF sm.archived THEN "skip"
    ELSE IF DryRunActive THEN "dry"
    ELSE "delete"

\* What cleanup_deleted_spools does with the listed spool sm of a lot that is not in
\* sp_uids: the "archived" test, the dry-run test, then used_weight > 0.
CleanupDecision(sm) ==
    IF sm.archived THEN "skip"
    ELSE IF DryRunActive THEN "dry"
    ELSE IF sm.used_weight > 0 THEN "archive"
    ELSE "delete"

Cleanup(p) ==
    /\ pc[p] = "cleanup"
    /\ queue[p] # <<>>
    /\ LET u == Head(queue[p])
           sm == lotMap[p][u]
           live == {s \in inv : s.id = sm.id}
           base == [EvNone EXCEPT !.p = p, !.kind = "cleanup", !.uid = u, !.dry = dryRun,
                                  !.cur_used = sm.used_weight, !.target = sm.id,
                                  !.wasArchived = sm.archived,
                                  !.liveUsed = IF live = {} THEN -1
                                               ELSE (CHOOSE s \in live : TRUE).used_weight]
       IN  \/ /\ CleanupDecision(sm) \in {"skip", "dry"}
              /\ ev' = [base EXCEPT !.branch = CleanupDecision(sm)]
              /\ hist' = HistClean(hist, p, u)
              /\ UNCHANGED inv
           \/ /\ CleanupDecision(sm) = "archive"
              /\ \E ok \in BOOLEAN :
                     /\ ok => live # {}
                     /\ inv' = IF ok
                               THEN (inv \ live) \cup
                                    {[s EXCEPT !.archived = TRUE,
                                               !.used_weight = sm.used_weight,
                                               !.lot_nr = sm.lot_nr,
                                               !.by = sm.by] : s \in live}
                               ELSE inv
                     /\ ev' = [base EXCEPT !.branch = "archive", !.calls = {"update_spool"},
                                           !.ok = ok]
                     /\ hist' = HistClean(HistStep(p, TRUE, ~ok, FALSE, FALSE), p, u)
           \/ /\ CleanupDecision(sm) = "delete"
              /\ \E ok \in BOOLEAN :
                     /\ ok => live # {}
                     /\ inv' = IF ok THEN inv \ live ELSE inv
                     /\ ev' = [base EXCEPT !.branch = "delete", !.calls = {"delete_spool"},
                                           !.ok = ok]
                     /\ hist' = HistClean(HistStep(p, TRUE, ~ok, FALSE, FALSE), p, u)
    /\ queue' = [queue EXCEPT ![p] = Tail(queue[p])]
    /\ UNCHANGED <<now, dryRun, lastSyncTime, cloud, invFilaments, invVendors, nextId, cache,
                   cacheFilaments, dbWriter, pc, tickStart, lastSync, spSnap, lotMap,
                   smFilaments, smVendors, cur, sess, sessFil, ticks, envLeft>>

\* Variant that stores the time at which the tick finishes.
FinishValueNow(p) == now + 1

\* The value run_sync_once stores: str(sync_start_time).
FinishValue(p) == tickStart[p]

\* Step 4: S.set("LAST_SYNC_TIME", str(sync_start_time)), and the tick returns.
Finish(p) ==
    /\ pc[p] = "cleanup"
    /\ queue[p] = <<>>
    /\ dbWriter = NoProc
    /\ lastSyncTime' = FinishValue(p)
    /\ ev' = [EvEnd(p, "finish") EXCEPT !.last_sync = tickStart[p]]
    /\ hist' = [HistEnd(hist, p) EXCEPT
                   !.settled = IF ~hist.solo[p] THEN "none"
                               ELSE IF hist.failed[p] /\ hist.cloudChanged[p] THEN "none"
                               ELSE IF hist.cloudChanged[p] THEN "inv_sent"
                               ELSE IF hist.failed[p] THEN "failed"
                               ELSE IF hist.invAuth[p] THEN "inv_auth"
                               ELSE "clean",
                   !.lastDone = tickStart[p]]
    /\ EndTick(p)
    /\ UNCHANGED <<now, dryRun, cloud, inv, invFilaments, invVendors, nextId, cache,
                   cacheFilaments, dbWriter, ticks, envLeft>>

\* Step 4 while another tick's session holds the write lock: S.set raises "database
\* is locked" out of run_sync_once, and LAST_SYNC_TIME is not written.
FinishLocked(p) ==
    /\ pc[p] = "cleanup"
    /\ queue[p] = <<>>
    /\ dbWriter # NoProc
    /\ ev' = [EvEnd(p, "finish_error") EXCEPT !.ok = FALSE]
    /\ hist' = [HistEnd(hist, p) EXCEPT !.settled = "none", !.failed[p] = TRUE]
    /\ EndTick(p)
    /\ UNCHANGED <<now, dryRun, lastSyncTime, cloud, inv, invFilaments, invVendors, nextId,
                   cache, cacheFilaments, dbWriter, ticks, envLeft>>

\* ---------------------------------------------------------- the environment

\* A print consumes filament: Cloud reports a smaller left, with or without a
\* last-used timestamp.
CloudPrint(u) ==
    /\ envLeft > 0
    /\ cloud[u].present
    /\ \E l \in Lefts, ts \in BOOLEAN :
           /\ l < cloud[u].left
           /\ now' = IF ts THEN now + 1 ELSE now
           /\ cloud' = [cloud EXCEPT ![u].left = l,
                                     ![u].last_used = IF ts THEN now' ELSE @,
                                     ![u].lens = IF @ = "left" THEN "ok" ELSE @]
    /\ envLeft' = envLeft - 1
    /\ ev' = [EvNone EXCEPT !.kind = "env", !.uid = u, !.branch = "print"]
    /\ hist' = HistEnv(dryRun)
    /\ UNCHANGED <<dryRun, lastSyncTime, inv, invFilaments, invVendors, nextId, cache,
                   cacheFilaments, dbWriter, pc, tickStart, lastSync, spSnap, lotMap,
                   smFilaments, smVendors, queue, cur, sess, sessFil, ticks>>

\* The filament is deleted in Cloud.
CloudRemove(u) ==
    /\ envLeft > 0
    /\ cloud[u].present
    /\ cloud' = [cloud EXCEPT ![u] = NoFil]
    /\ envLeft' = envLeft - 1
    /\ ev' = [EvNone EXCEPT !.kind = "env", !.uid = u, !.branch = "remove"]
    /\ hist' = HistEnv(dryRun)
    /\ UNCHANGED <<now, dryRun, lastSyncTime, inv, invFilaments, invVendors, nextId, cache,
                   cacheFilaments, dbWriter, pc, tickStart, lastSync, spSnap, lotMap,
                   smFilaments, smVendors, queue, cur, sess, sessFil, ticks>>

\* A user corrects a spool's used weight in Inv (from a scale); Inv stamps the spool.
UserEdit(id) ==
    /\ envLeft > 0
    /\ now' = now + 1
    /\ \E s \in inv, w \in EditWeights :
           /\ s.id = id
           /\ w # s.used_weight
           /\ inv' = (inv \ {s}) \cup
                     {[s EXCEPT !.used_weight = w, !.last_used = now', !.by = "user"]}
    /\ envLeft' = envLeft - 1
    /\ ev' = [EvNone EXCEPT !.kind = "env", !.target = id, !.branch = "edit"]
    /\ hist' = HistEnv(dryRun)
    /\ UNCHANGED <<dryRun, lastSyncTime, cloud, invFilaments, invVendors, nextId, cache,
                   cacheFilaments, dbWriter, pc, tickStart, lastSync, spSnap, lotMap,
                   smFilaments, smVendors, queue, cur, sess, sessFil, ticks>>

\* POST /settings: S.set("DRY_RUN", ...). The store shares the cache's database file,
\* so the write waits for a tick's open session to commit.
SettingsSave ==
    /\ envLeft > 0
    /\ dbWriter = NoProc
    /\ dryRun' = ~dryRun
    /\ stored' = [interval |-> ClampInterval(stored.interval),
                  epsilon |-> ClampEpsilon(10 * stored.epsilon)]
    /\ scheduler' = reconfigure_scheduler(scheduler, stored'.interval)
    /\ fx' = fx
    /\ envLeft' = envLeft - 1
    /\ ev' = [EvNone EXCEPT !.kind = "env", !.branch = "settings", !.dry = dryRun']
    /\ hist' = HistEnv(dryRun')
    /\ UNCHANGED <<now, lastSyncTime, cloud, inv, invFilaments, invVendors, nextId, cache,
                   cacheFilaments, dbWriter, pc, tickStart, lastSync, spSnap, lotMap,
                   smFilaments, smVendors, queue, cur, sess, sessFil, ticks>>

\* The task running tick p is cancelled, or the process stops: CancelledError is
\* raised at the awaited call (no "except Exception" catches it), the "with
\* get_session()" block is left through its finally clause, which closes the
\* connection without a commit, and run_sync_once does not reach S.set.
Interrupt(p) ==
    /\ envLeft > 0
    /\ pc[p] # "idle"
    /\ envLeft' = envLeft - 1
    /\ dbWriter' = IF dbWriter = p THEN NoProc ELSE dbWriter
    /\ ev' = [EvEnd(p, "interrupt") EXCEPT !.uid = IF queue[p] # <<>> THEN Head(queue[p])
                                                   ELSE "-"]
    /\ hist' = HistEnd(HistEnv(dryRun), p)
    /\ EndTick(p)
    /\ UNCHANGED <<now, dryRun, lastSyncTime, cloud, inv, invFilaments, invVendors, nextId,
                   cache, cacheFilaments, ticks>>

\* ---------------------------------------------------------- specification

Next ==
    \/ \E p \in Procs : TickStart(p) /\ UNCHANGED <<scheduler, stored, fx>>
    \/ \E p \in Procs : FetchOk(p) /\ UNCHANGED <<scheduler, stored, fx>>
    \/ \E p \in Procs : FetchFail(p) /\ UNCHANGED <<scheduler, stored, fx>>
    \/ \E p \in Procs : ItemLocked(p) /\ UNCHANGED <<scheduler, stored, fx>>
    \/ \E p \in Procs : ItemExisting(p) /\ UNCHANGED <<scheduler, stored, fx>>
    \/ \E p \in Procs : ItemDry(p) /\ UNCHANGED <<scheduler, stored, fx>>
    \/ \E p \in Procs : ItemCreate(p) /\ UNCHANGED <<scheduler, stored, fx>>
    \/ \E p \in Procs : UsageCreated(p) /\ UNCHANGED <<scheduler, stored, fx>>
    \/ \E p \in Procs : Cleanup(p) /\ UNCHANGED <<scheduler, stored, fx>>
    \/ \E p \in Procs : Finish(p) /\ UNCHANGED <<scheduler, stored, fx>>
    \/ \E p \in Procs : FinishLocked(p) /\ UNCHANGED <<scheduler, stored, fx>>
    \/ \E u \in Uids : CloudPrint(u) /\ UNCHANGED <<scheduler, stored, fx>>
    \/ \E u \in Uids : CloudRemove(u) /\ UNCHANGED <<scheduler, stored, fx>>
    \/ \E id \in 1..(nextId - 1) : UserEdit(id) /\ UNCHANGED <<scheduler, stored, fx>>
    \/ SettingsSave

Spec == Init /\ [][Next]_vars

\* Two filaments in Cloud, each well-formed or not, and an empty Inv; ticks, the
\* removal of a filament from Cloud, and interruptions.
InitTwo ==
    \E ba, bb \in BOOLEAN :
        InitWith([u \in Uids |->
                     [present |-> TRUE, total |-> 335284, left |-> 234699, last_used |-> 0,
                      id |-> TRUE, bad |-> IF u = "A" THEN ba ELSE bb, lens |-> "ok"]],
                 {}, 0)

NextTwo ==
    \/ \E p \in Procs : TickStart(p) /\ UNCHANGED <<scheduler, stored, fx>>
    \/ \E p \in Procs : FetchOk(p) /\ UNCHANGED <<scheduler, stored, fx>>
    \/ \E p \in Procs : FetchFail(p) /\ UNCHANGED <<scheduler, stored, fx>>
    \/ \E p \in Procs : ItemBad(p) /\ UNCHANGED <<scheduler, stored, fx>>
    \/ \E p \in Procs : ItemLocked(p) /\ UNCHANGED <<scheduler, stored, fx>>
    \/ \E p \in Procs : ItemExisting(p) /\ UNCHANGED <<scheduler, stored, fx>>
    \/ \E p \in Procs : ItemCreate(p) /\ UNCHANGED <<scheduler, stored, fx>>
    \/ \E p \in Procs : UsageCreated(p) /\ UNCHANGED <<scheduler, stored, fx>>
    \/ \E p \in Procs : Cleanup(p) /\ UNCHANGED <<scheduler, stored, fx>>
    \/ \E p \in Procs : Finish(p) /\ UNCHANGED <<scheduler, stored, fx>>
    \/ \E p \in Procs : FinishLocked(p) /\ UNCHANGED <<scheduler, stored, fx>>
    \/ \E p \in Procs : Interrupt(p) /\ UNCHANGED <<scheduler, stored, fx>>
    \/ \E u \in Uids : CloudRemove(u) /\ UNCHANGED <<scheduler, stored, fx>>

SpecTwo == InitTwo /\ [][NextTwo]_vars

\* ------------------------------------------- the scheduler and the settings form

FormIntervals == {0, 29, 30, 31, 600}
FormEpsilons == {-1000, 0, 4, 14, 16, 500, 1000}

\* start_scheduler(), as startup() calls it and as any later call.
StartScheduler ==
    /\ scheduler' = start_scheduler(scheduler, stored.interval)
    /\ ev' = [EvNone EXCEPT !.kind = "start", !.sched = scheduler]
    /\ UNCHANGED <<tickVars, dryRun, stored, fx>>

\* reconfigure_scheduler() called on its own.
ReconfigureScheduler ==
    /\ scheduler' = reconfigure_scheduler(scheduler, stored.interval)
    /\ ev' = [EvNone EXCEPT !.kind = "reconfigure", !.sched = scheduler]
    /\ UNCHANGED <<tickVars, dryRun, stored, fx>>

\* POST /settings with any posted interval i (s), epsilon e (1/1000 g) and DRY_RUN d:
\* the values are clamped and stored, then reconfigure_scheduler() runs.
SettingsForm ==
    \E i \in FormIntervals, e \in FormEpsilons, d \in BOOLEAN :
        /\ dryRun' = d
        /\ stored' = [interval |-> ClampInterval(i), epsilon |-> ClampEpsilon(e)]
        /\ scheduler' = reconfigure_scheduler(scheduler, stored'.interval)
        /\ ev' = [EvNone EXCEPT !.kind = "save", !.sched = scheduler, !.dry = d,
                                !.formInterval = i, !.formEpsilon = e]
        /\ UNCHANGED <<tickVars, fx>>

\* The module is loaded (_scheduler = None) on the default settings; no tick runs.
InitSched ==
    InitState([u \in Uids |-> NoFil], {}, 0, NoScheduler, FxNone)

NextSched ==
    \/ StartScheduler
    \/ ReconfigureScheduler
    \/ SettingsForm

SpecSched == InitSched /\ [][NextSched]_vars

\* ------------------------------------------------ the functions on their own

FnWeights == {0, 1, 2, 3}
FnStamps == {0, 2, 3}
FnLengths == {-1000, 0, 1000, 234699, 335284}
FnGrams == {22000, 24000, 28000, 28100, 87900, 88000, 89000, 100000, 105000, 108800,
            112000, 113000, 119900, 120000, 150000}
FnBrands == {"acme", "JAYO"}
FnInitials == {0, 100000}
FnUsed == {0, 60, 50000, 100000, 120000}
FnLabels == {<<>>, <<"PLA">>, <<"pla">>, <<"JAYO", "PETG">>, <<"PLA+", "Natural">>,
             <<"PLA", "PLA+">>, <<"PLA+", "PETG-CF">>, <<"PVA", "HIPS">>,
             <<"JAYO", "PLA", "Silk">>, <<"Silk">>, <<"JAYO", "Silk">>,
             <<"PETG-CF">>, <<"PETG", "PETG-CF">>}

\* The arguments a function is evaluated on.
FnInputs ==
    {[FxNone EXCEPT !.fn = "branch", !.x = u, !.y = c, !.z = t, !.w = l] :
        u \in FnWeights, c \in FnWeights, t \in FnStamps, l \in FnStamps}
    \cup {[FxNone EXCEPT !.fn = "used_g", !.x = t, !.y = l] : t \in FnLengths, l \in FnLengths}
    \cup {[FxNone EXCEPT !.fn = "round", !.x = g, !.s = <<b>>] : g \in FnGrams, b \in FnBrands}
    \cup {[FxNone EXCEPT !.fn = "extract", !.s = l] : l \in FnLabels}
    \cup {[FxNone EXCEPT !.fn = "payload", !.x = i, !.y = c, !.z = 335284, !.w = l] :
             i \in FnInitials, c \in FnUsed, l \in {234699, 335284}}

\* Evaluates function fn; out and outs are the result (a number, or a text as words).
Apply(fn, out, outs) ==
    /\ fx.fn = fn /\ ~fx.done
    /\ fx' = [fx EXCEPT !.out = out, !.outs = outs, !.done = TRUE]
    /\ UNCHANGED <<tickVars, dryRun, ev, scheduler, stored>>

\* The comparison of calculate_and_sync_usage with EPSILON_GRAMS stored as 0.01:
\* used_g x, cur_used y, Inv's timestamp z, last_sync_time w.
ApplyBranch == Apply("branch", 0, <<BranchEps(ClampEpsilon(MIN_EPSILON), fx.z, fx.w, fx.x, fx.y)>>)

\* used_g for total x and left y.
ApplyUsedG == Apply("used_g", UsedG(fx.x, fx.y), <<>>)

\* round_to_standard_weight for weight x and the brand in s.
ApplyRound == Apply("round", round_to_standard_weight(fx.x, fx.s[1]), <<>>)

\* extract_material_type for the label in s.
ApplyExtract == Apply("extract", 0, extract_material_type(fx.s))

\* left and length_used of the payload update_simplyprint_usage builds for a spool
\* with initial_weight x (0: none) and used_weight y, and a Cloud total z.
ApplyPayload ==
    LET initial_weight == IF fx.x # 0 THEN fx.x ELSE InitialWeight(fx.z, Brand)
        left == RemainingLengthMm(initial_weight, fx.y)
    IN  /\ fx.fn = "payload" /\ ~fx.done
        /\ fx' = [fx EXCEPT !.out = left, !.pct = LengthUsedPercent(left, fx.z),
                            !.done = TRUE]
        /\ UNCHANGED <<tickVars, dryRun, ev, scheduler, stored>>

InitFn ==
    \E f \in FnInputs : InitState([u \in Uids |-> NoFil], {}, 0, NoScheduler, f)

NextFn ==
    \/ ApplyBranch
    \/ ApplyUsedG
    \/ ApplyRound
    \/ ApplyExtract
    \/ ApplyPayload

SpecFn == InitFn /\ [][NextFn]_vars

\* ---------------------------------------------------- the filament table alone

CacheNames == {"PLA", "PLA Red"}
CacheDiameters == {175, 285}
CacheColors == {"-", "#FF0000", "#00FF00"}

\* upsert_filament in a session of its own, for any normalized filament f; the
\* history keeps the table as it was and f.
UpsertFilament ==
    \E n \in CacheNames, d \in CacheDiameters, c \in CacheColors :
        LET f == [name |-> n, material |-> "PLA", diameter_mm |-> d, color_hex |-> c]
        IN  /\ cacheFilaments' = upsert_filament(cacheFilaments, f)
            /\ ev' = [EvNone EXCEPT !.kind = "upsert", !.rows = cacheFilaments, !.row = f]
            /\ UNCHANGED <<now, dryRun, lastSyncTime, cloud, inv, invFilaments, invVendors,
                           nextId, cache, dbWriter, pc, tickStart, lastSync, spSnap, lotMap,
                           smFilaments, smVendors, queue, cur, sess, sessFil, ticks, envLeft,
                           hist, scheduler, stored, fx>>

InitCache ==
    InitState([u \in Uids |-> NoFil], {}, 0, NoScheduler, FxNone)

NextCache == UpsertFilament

SpecCache == InitCache /\ [][NextCache]_vars

\* ------------------------------------- length fields: resized and not numeric

\* Lengths in mm of a spool of twice the net weight (about 2000 g of PLA 1.75 mm).
ResizeTotals == {671141}

\* The Cloud reports another total for a filament (the spool record was edited there).
CloudResize(u) ==
    /\ envLeft > 0
    /\ cloud[u].present
    /\ \E t \in ResizeTotals :
           /\ t # cloud[u].total
           /\ cloud' = [cloud EXCEPT ![u].total = t,
                                     ![u].lens = IF @ = "total" THEN "ok" ELSE @]
    /\ envLeft' = envLeft - 1
    /\ ev' = [EvNone EXCEPT !.kind = "env", !.uid = u, !.branch = "resize"]
    /\ hist' = HistEnv(dryRun)
    /\ UNCHANGED <<now, dryRun, lastSyncTime, inv, invFilaments, invVendors, nextId, cache,
                   cacheFilaments, dbWriter, pc, tickStart, lastSync, spSnap, lotMap,
                   smFilaments, smVendors, queue, cur, sess, sessFil, ticks>>

\* Filament A, whose total or left may not be a number; Inv is empty, or holds for
\* A the spool an earlier run created (nothing used then, never written since), or
\* a spool the user weighed. Where A is malformed and Inv is empty, a well-formed
\* filament B may follow A in the response.
InitEdge ==
    \E la \in {"ok", "left", "total"}, pb \in BOOLEAN :
        \E sp \in {{},
                   {[id |-> 1, lot_nr |-> "A", used_weight |-> 0, initial_weight |-> 100000,
                     archived |-> FALSE, last_used |-> 0, by |-> "rec", origin |-> "rec"]},
                   {[id |-> 1, lot_nr |-> "A", used_weight |-> w, initial_weight |-> 100000,
                     archived |-> FALSE, last_used |-> 2, by |-> "user", origin |-> "user"] :
                        w \in EditWeights}} :
            /\ pb => (la # "ok" /\ sp = {})
            /\ InitWith([u \in Uids |->
                            IF u = "A" \/ pb
                            THEN [present |-> TRUE, total |-> 335284, left |-> 234699,
                                  last_used |-> 0, id |-> TRUE, bad |-> FALSE,
                                  lens |-> IF u = "A" THEN la ELSE "ok"]
                            ELSE NoFil],
                         sp, 1)

NextEdge ==
    \/ \E p \in Procs : TickStart(p) /\ UNCHANGED <<scheduler, stored, fx>>
    \/ \E p \in Procs : FetchOk(p) /\ UNCHANGED <<scheduler, stored, fx>>
    \/ \E p \in Procs : FetchFail(p) /\ UNCHANGED <<scheduler, stored, fx>>
    \/ \E p \in Procs : ItemLocked(p) /\ UNCHANGED <<scheduler, stored, fx>>
    \/ \E p \in Procs : ItemExisting(p) /\ UNCHANGED <<scheduler, stored, fx>>
    \/ \E p \in Procs : ItemCreate(p) /\ UNCHANGED <<scheduler, stored, fx>>
    \/ \E p \in Procs : UsageCreated(p) /\ UNCHANGED <<scheduler, stored, fx>>
    \/ \E p \in Procs : Cleanup(p) /\ UNCHANGED <<scheduler, stored, fx>>
    \/ \E p \in Procs : Finish(p) /\ UNCHANGED <<scheduler, stored, fx>>
    \/ \E p \in Procs : FinishLocked(p) /\ UNCHANGED <<scheduler, stored, fx>>
    \/ \E u \in Uids : CloudResize(u) /\ UNCHANGED <<scheduler, stored, fx>>
    \/ \E u \in Uids : CloudRemove(u) /\ UNCHANGED <<scheduler, stored, fx>>

SpecEdge == InitEdge /\ [][NextEdge]_vars

\* ------------------------------------ reuse or creation of filament and vendor

MatchMaterials == {"PLA", "pla"}
MatchDiameters == {1750, 1755, 2850}
MatchBrands == {"Acme", "acme", "Unknown"}
MatchColors == {NoColor, "#FF0000", "#ff0000"}

\* filament_data of the items, as far as the match reads it.
MatchItems ==
    {[material |-> "PLA", diameter_mm |-> 1750, brand |-> b, color_hex |-> c] :
        b \in MatchBrands, c \in MatchColors}
    \cup {[material |-> m, diameter_mm |-> d, brand |-> "Acme", color_hex |-> NoColor] :
             m \in MatchMaterials, d \in MatchDiameters}

\* The filaments and the vendors' names Inv lists at the start of the tick.
MatchSnapshots ==
    {[filaments |-> <<>>, vendors |-> <<>>],
     [filaments |-> <<>>, vendors |-> <<"acme">>],
     [filaments |-> <<[material |-> "pla", diameter |-> 1750, vendor |-> "acme",
                       color_hex |-> NoColor]>>,
      vendors |-> <<"acme">>],
     [filaments |-> <<[material |-> "PLA", diameter |-> 1750, vendor |-> "Acme",
                       color_hex |-> "#FF0000"],
                      [material |-> "PLA", diameter |-> 1750, vendor |-> "Acme",
                       color_hex |-> "#ff0000"]>>,
      vendors |-> <<"Acme">>]}

\* ensure_spoolman_spool up to the filament, for the next item without Inv spool in
\* a non-dry-run tick: the first matching filament of sm_filaments is reused;
\* else ensure_vendor looks the brand up and creates the vendor on a miss, and
\* create_filament's result is appended to sm_filaments. used records, per item,
\* the position of its filament in sm_filaments (0: none, a call failed); made the
\* names of the vendors created.
EnsureFilament ==
    /\ fx.fn = "ensure"
    /\ Len(fx.used) < Len(fx.items)
    /\ LET fd == fx.items[Len(fx.used) + 1]
           m == FirstMatch(fx.filaments, fd)
           v == VendorLookup(fx.vendors, fd.brand)
       IN  IF m # 0
           THEN fx' = [fx EXCEPT !.used = Append(@, m)]
           ELSE \E vOk, fOk \in BOOLEAN :
                    /\ v # -1 => vOk
                    /\ LET vendor == IF v > 0 THEN fx.vendors[v]
                                     ELSE IF v = -1 /\ vOk THEN fd.brand
                                     ELSE NoVendorName
                           created == [material |-> fd.material, diameter |-> fd.diameter_mm,
                                       vendor |-> vendor, color_hex |-> fd.color_hex]
                       IN  fx' = [fx EXCEPT
                                     !.vendors = IF v = -1 /\ vOk THEN Append(@, fd.brand) ELSE @,
                                     !.made = IF v = -1 /\ vOk THEN Append(@, fd.brand) ELSE @,
                                     !.filaments = IF fOk THEN Append(@, created) ELSE @,
                                     !.used = Append(@, IF fOk THEN Len(fx.filaments) + 1 ELSE 0),
                                     !.failed = @ + (IF vOk THEN 0 ELSE 1)
                                                  + (IF fOk THEN 0 ELSE 1)]
    /\ UNCHANGED <<tickVars, dryRun, ev, scheduler, stored>>

InitReuse ==
    \E a \in MatchItems, b \in MatchItems, sn \in MatchSnapshots :
        InitState([u \in Uids |-> NoFil], {}, 0, NoScheduler,
                  [FxNone EXCEPT !.fn = "ensure", !.items = <<a, b>>,
                                 !.snapshot = sn.vendors,
                                 !.filaments = sn.filaments, !.vendors = sn.vendors])

NextReuse == EnsureFilament

SpecReuse == InitReuse /\ [][NextReuse]_vars

\* ------------------------------------------------------------------ claims

\* C1: at most one tick is in progress at any instant.
C1_SingleTick == Cardinality(Running) <= 1

\* C2: a used_weight the Reconciler itself wrote is not taken for a manual edit: when
\* a later tick finds, for a spool from lot_map that only the Reconciler has written,
\* a Cloud consumption above the spool's used_weight by more than EPSILON_GRAMS, it
\* updates the Inv spool and issues no Cloud update.
C2_OwnWriteNotManual ==
    (ev.kind = "usage" /\ ev.fromMap /\ ev.byRec /\ ~ev.wasArchived /\ ~ev.dry
        /\ ev.used_g - ev.cur_used > EPSILON_GRAMS)
    => ev.calls = {"update_spool"}

\* C3: when the Inv spool's last-modified time exists and is later than
\* LAST_SYNC_TIME, and Cloud's and Inv's consumption differ by more than
\* EPSILON_GRAMS, a non-dry-run tick issues a Cloud update and no Inv spool update.
C3_InvNewerUpdatesCloud ==
    (ev.kind = "usage" /\ ~ev.dry /\ ev.sm_ts # 0 /\ ev.sm_ts > ev.last_sync
        /\ Abs(ev.used_g - ev.cur_used) > EPSILON_GRAMS)
    => ev.calls = {"cloud_update"}
C5_SecondTickIdle ==
    \A p \in Procs :
        (hist.solo[p] /\ hist.after[p] \in {"inv_auth", "clean"}) => ~hist.issued[p]

\* C6: while DRY_RUN is true a tick issues no create, update, archive or delete to
\* Inv and no update to Cloud: no step of a tick that reads DRY_RUN as true issues
\* a call (creation, either usage branch, cleanup), and a tick during which DRY_RUN
\* stayed true has issued none.
C6_DryRunIssuesNothing ==
    /\ (ev.kind \in {"item", "usage", "cleanup"} /\ ev.dry) => ev.calls = {}
    /\ \A p \in Procs : hist.dryAll[p] => ~hist.issued[p]

C6_Witness ==
    /\ ev.kind = "usage" /\ ev.branch = "cloud_auth"
    /\ Abs(ev.used_g - ev.cur_used) > EPSILON_GRAMS
    /\ ev.dry /\ hist.dryAll[ev.p] /\ ev.calls = {}
    /\ \E s \in inv : s.id = ev.target /\ s.used_weight = ev.cur_used

\* C7: a tick whose initial fetches fail (or whose Cloud response is malformed) ends
\* having issued no Inv or Cloud mutation and no cache write, and leaves
\* LAST_SYNC_TIME as it was.
C7_FetchFailureAborts ==
    [][\A p \in Procs :
          (pc[p] = "fetch" /\ pc'[p] = "idle") =>
              /\ lastSyncTime' = lastSyncTime
              /\ inv' = inv /\ invFilaments' = invFilaments /\ invVendors' = invVendors
              /\ cloud' = cloud
              /\ cache' = cache /\ cacheFilaments' = cacheFilaments
              /\ dbWriter' = dbWriter
              /\ ~hist'.issued[p]]_vars

C7_Witness ==
    /\ ev.kind \in {"fetch_error", "shape_error"}
    /\ pc[ev.p] = "idle"
    /\ lastSyncTime # 0 /\ lastSyncTime < now
    /\ ~hist.issued[ev.p]

\* C8: after a tick that completes, LAST_SYNC_TIME is that tick's start time, the
\* clock value taken before its fetches, not the time at which it finished.
C8_LastSyncIsTickStart ==
    /\ lastSyncTime = hist.lastDone
    /\ ev.kind = "finish" => lastSyncTime = ev.last_sync

C8_Witness ==
    /\ ev.kind = "finish"
    /\ lastSyncTime = ev.last_sync /\ lastSyncTime # 0
    /\ hist.issued[ev.p] /\ now > lastSyncTime

\* C9: no tick changes an Inv spool that is archived.
C9_ArchivedUntouched ==
    ~(ev.kind = "usage" /\ ev.wasArchived /\ "update_spool" \in ev.calls /\ ev.ok)

\* C10: between ticks, every spool the Reconciler created and maintains has
\* 0 <= used_weight <= initial_weight.
C10_UsedWithinInitial ==
    Running = {} =>
        \A s \in inv :
            (s.origin = "rec" /\ s.by = "rec") =>
                (0 <= s.used_weight /\ s.used_weight <= s.initial_weight)
C12_OneSpoolPerCode ==
    \A s, t \in inv :
        (s.origin = "rec" /\ t.origin = "rec" /\ s.lot_nr = t.lot_nr) => s.id = t.id
C14_UpstreamErrorCounted ==
    (/\ ev.kind \in {"item", "usage"}
     /\ pc[ev.p] # "usage"
     /\ ev.failedCalls \cap {"create_vendor", "create_filament", "create_spool",
                              "update_spool", "cloud_update"} # {})
    => (ev.uid \in hist.errs[ev.p] /\ ev.uid \notin hist.succ[ev.p])
C16_MirrorFidelity ==
    (ev.kind = "usage" /\ ~ev.dry) =>
        LET row == IF sess[ev.p][ev.uid].present THEN sess[ev.p][ev.uid] ELSE cache[ev.uid]
        IN  \A s \in inv :
                s.id = ev.target => Abs(row.used - s.used_weight) <= EPSILON_GRAMS
C18_CacheWritesLast ==
    ev.kind \in {"item", "usage"} =>
        \A i, j \in 1..Len(ev.order) :
            (i < j /\ ev.order[i] \in {"upsert_filament", "upsert_spool"})
            => ev.order[j] \notin {"create_vendor", "create_filament", "create_spool",
                                   "update_spool"}
\* C19: a tick that is cancelled stops at a boundary: before its first item, between
\* two items, between the main pass and cleanup or between two lots of cleanup,
\* never inside an item.
C19_StopsAtBoundary ==
    ev.kind = "interrupt" => ev.at \in {"fetch", "items", "cleanup"}

\* C20: when a tick is interrupted, the cache rows of the items it had completed
\* are in the cache.
C20_PartialProgressDurable ==
    ev.kind = "interrupt" => \A u \in ev.succ : cache[u].present
\* C21: a started scheduler holds exactly one job, with the stored
\* SYNC_INTERVAL_SECONDS as read by the last start or reconfigure; a scheduler that
\* was never started holds none; a start on a started scheduler changes nothing and
\* a reconfigure before any start changes nothing.
C21_OneJob ==
    /\ scheduler.started => scheduler.jobs = <<stored.interval>>
    /\ ~scheduler.started => scheduler = NoScheduler
    /\ (ev.kind = "start" /\ ev.sched.started) => scheduler = ev.sched
    /\ (ev.kind \in {"reconfigure", "save"} /\ ~ev.sched.started) => scheduler = NoScheduler

C21_Witness ==
    /\ ev.kind = "start" /\ ev.sched.started
    /\ Len(scheduler.jobs) = 1
    /\ scheduler.jobs[1] = stored.interval /\ stored.interval # DEFAULT_INTERVAL

\* C29: whatever was posted, the stored SYNC_INTERVAL_SECONDS and the interval of
\* every scheduler job are at least 30 s and the stored EPSILON_GRAMS is at least
\* 0.01 g.
C29_Clamped ==
    /\ stored.interval >= MIN_INTERVAL
    /\ 10 * stored.epsilon >= MIN_EPSILON
    /\ \A k \in 1..Len(scheduler.jobs) : scheduler.jobs[k] >= MIN_INTERVAL

C29_Witness ==
    /\ ev.kind = "save" /\ ev.formInterval < MIN_INTERVAL /\ ev.formEpsilon < MIN_EPSILON
    /\ stored = [interval |-> MIN_INTERVAL, epsilon |-> 1]
    /\ scheduler.jobs = <<MIN_INTERVAL>>
C25_UsedNonNegative ==
    (fx.fn = "used_g" /\ fx.done) =>
        /\ fx.out >= 0
        /\ fx.y > fx.x => fx.out = 0

C25_Witness ==
    /\ fx.fn = "used_g" /\ fx.done
    /\ fx.y > fx.x /\ fx.x > 0
    /\ fx.out = 0

\* C28: round_to_standard_weight returns the nearest standard weight s exactly when
\* |w - s| is at most 12% of w, and w itself otherwise.
C28_RoundWithinTolerance ==
    (fx.fn = "round" /\ fx.done) =>
        LET nearest == Closest(fx.x, fx.s[1])
        IN  IF 100 * Abs(fx.x - nearest) <= TOLERANCE_PERCENT * fx.x
            THEN fx.out = nearest
            ELSE fx.out = fx.x

\* C30: when a label matches several material codes, as the whole label, after its
\* last space or before its first space, extract_material_type returns a longest
\* one of them.
C30_LongestMatch ==
    (fx.fn = "extract" /\ fx.done) =>
        LET n == Len(fx.s)
            codes == {known_materials[k] : k \in 1..Len(known_materials)}
            hits == {m \in codes : n > 0 /\ (Upper(fx.s[1]) = m \/ Upper(fx.s[n]) = m)}
        IN  hits # {} =>
                /\ fx.outs[1] \in hits
                /\ \A m \in hits : Len(fx.outs[1]) >= Len(m)
\* C27: upserting a filament leaves in the table every row whose color_hex differs
\* from the upserted filament's, and the upserted filament has a row of its own.
C27_ColorsDistinct ==
    ev.kind = "upsert" =>
        /\ ev.row \in cacheFilaments
        /\ \A r \in ev.rows : r.color_hex # ev.row.color_hex => r \in cacheFilaments
\* C22: within a tick nothing is attempted twice: the items still to process hold
\* no item the tick has already counted, the lots still to clean up hold no lot
\* already handled, and the calls of one item hold no call twice, so a call that
\* failed is not made again before a later tick.
C22_NoRetry ==
    /\ \A p \in Procs :
           \A k \in 1..Len(queue[p]) :
               /\ \A j \in 1..Len(queue[p]) : queue[p][j] = queue[p][k] => j = k
               /\ pc[p] \in {"items", "usage"} =>
                      queue[p][k] \notin hist.succ[p] \cup hist.errs[p]
               /\ pc[p] = "cleanup" => queue[p][k] \notin hist.cleaned[p]
    /\ ev.kind \in {"item", "usage", "cleanup"} =>
           /\ \A j, k \in 1..Len(ev.order) : ev.order[j] = ev.order[k] => j = k
           /\ Cardinality(ev.calls) <= Len(ev.order) \/ ev.kind = "cleanup"
           /\ ev.kind = "cleanup" => Cardinality(ev.calls) <= 1

C22_Witness ==
    /\ ev.kind = "usage" /\ ev.failedCalls = {"update_spool"}
    /\ ev.uid = "A" /\ "A" \in hist.succ[ev.p]
    /\ pc[ev.p] = "items" /\ queue[ev.p] = <<"B">>

\* C23: a changed Cloud total does not re-initialize the Inv spool. After a
\* Cloud-authoritative update_spool that succeeded, the spool has the
\* initial_weight it had before the call, archived and lot_nr are the values read
\* from Inv, its id and its creator are the same, and no other spool has changed.
C23_NoReinit ==
    (ev.kind = "usage" /\ ev.branch = "cloud_auth" /\ "update_spool" \in ev.calls /\ ev.ok)
        => /\ \E s \in inv : /\ s.id = ev.target
                              /\ s.initial_weight = ev.liveInitial
                              /\ s.archived = ev.readArchived
                              /\ s.lot_nr = ev.uid
                              /\ s.used_weight = ev.used_g
           /\ \A s, t \in inv : s.id = t.id => s = t
           /\ {s \in inv : s.id # ev.target} = ev.others

\* The update happened for a spool whose initial_weight is not the one the current
\* Cloud total would give: the total has changed since the spool was created.
C23_Witness ==
    /\ ev.kind = "usage" /\ ev.branch = "cloud_auth" /\ "update_spool" \in ev.calls /\ ev.ok
    /\ ev.total \in ResizeTotals
    /\ InitialWeight(ev.total, Brand) # ev.liveInitial
    /\ \E s \in inv : s.id = ev.target /\ s.origin = "rec" /\ s.used_weight > 0

\* C26: when total or left of a Cloud filament is not a number, the reconciled used
\* weight of the item (the value calculate_and_sync_usage returns, which the cache
\* row of the item receives) is 0.
C26_InvalidIsZero ==
    (ev.kind = "usage" /\ ev.branch = "invalid_length") => ev.used_g = 0

\* C31: a manual correction is not lost. A tick that runs alone, right after a
\* completed tick that ran alone, found Inv authoritative and left Cloud as it was
\* (nothing was sent: no id on the Cloud record, or dry-run), with Cloud, Inv and
\* the settings untouched in between, does not write the Cloud-derived used weight
\* over the Inv spool's used_weight.
C31_CorrectionKept ==
    ~(/\ ev.kind = "usage" /\ ev.branch = "cloud_auth"
      /\ "update_spool" \in ev.calls /\ ev.ok
      /\ hist.solo[ev.p] /\ hist.after[ev.p] = "inv_auth"
      /\ ev.liveUsed = ev.cur_used /\ ev.used_g # ev.cur_used)

\* C32: convergence after back-propagation. A tick that runs alone, right after a
\* completed tick that ran alone, took the Inv-authoritative branch, had the
\* back-computed left accepted by Cloud and had no call fail, with Cloud, Inv and the
\* settings untouched in between, finds the item in sync and issues no call for it.
C32_ConvergesAfterBackPropagation ==
    (ev.kind = "usage" /\ hist.solo[ev.p] /\ hist.after[ev.p] = "inv_sent")
        => (Abs(ev.used_g - ev.cur_used) <= EPSILON_GRAMS /\ ev.calls = {})

\* C33: LAST_SYNC_TIME never decreases: every step that writes it stores a value
\* greater than or equal to the one it replaces.
C33_LastSyncMonotone == [][lastSyncTime' >= lastSyncTime]_vars

\* C34: every Cloud update issued on the Inv-authoritative branch carries
\* 0 <= left <= total_length and a length_used between 0 and 100 percent.
C34_PayloadBounds ==
    (/\ fx.fn = "payload" /\ fx.done
     /\ BranchEps(EPSILON_GRAMS, 2, 1, UsedG(fx.z, fx.w), fx.y) = "inv_auth")
        => (0 <= fx.out /\ fx.out <= fx.z /\ 0 <= fx.pct /\ fx.pct <= 10000)

\* C35: cleanup never touches live codes. Every lot a tick's cleanup handles, and
\* every lot still waiting in its cleanup pass, is absent from that tick's Cloud
\* response, whether or not the items of the response were processed
\* successfully; when the tick returns it has cleaned no code of its response.
C35_CleanupSparesLive ==
    /\ ev.kind = "cleanup" => ~spSnap[ev.p][ev.uid].present
    /\ \A p \in Procs :
           pc[p] = "cleanup" =>
               \A i \in 1..Len(queue[p]) : ~spSnap[p][queue[p][i]].present
    /\ ev.kind \in {"finish", "finish_error"} => ev.cleaned \cap ev.resp = {}

\* Cleanup deleted the spool of a lot that left Cloud, in a tick whose item A
\* failed while Inv held a spool for A: that spool is still there, not archived.
C35_Witness ==
    /\ ev.kind = "cleanup" /\ ev.uid = "B" /\ ev.calls # {} /\ ev.ok
    /\ "A" \in hist.errs[ev.p]
    /\ spSnap[ev.p]["A"].present
    /\ lotMap[ev.p]["A"] # NoSpool
    /\ \E s \in inv : s.id = lotMap[ev.p]["A"].id /\ ~s.archived

\* C36: the cache follows cleanup. When a tick returns, no lot its cleanup pass
\* handled whose spools are now all archived in Inv or gone from it has an active
\* row (archived = 0) in the local cache.
C36_CacheFollowsCleanup ==
    ev.kind = "finish" =>
        \A u \in ev.cleaned :
            (~\E s \in inv : s.lot_nr = u /\ ~s.archived)
                => ~(cache[u].present /\ ~cache[u].archived)

\* C37: reuse or creation of the filament. Two items of one tick with equal
\* attributes (material, diameter, brand, color), neither of which has an Inv
\* spool, share one Inv filament when no call failed.
C37_EqualItemsShare ==
    (/\ fx.fn = "ensure" /\ Len(fx.used) = 2 /\ fx.failed = 0
     /\ fx.items[1] = fx.items[2])
        => fx.used[1] = fx.used[2]

\* C38: vendor de-duplication. Within one tick no two vendors are created whose
\* names are equal after lower(), and no vendor is created whose name equals,
\* after lower(), the name of a vendor of the Inv snapshot.
C38_VendorOnce ==
    fx.fn = "ensure" =>
        /\ \A i, j \in 1..Len(fx.made) :
               Lower(fx.made[i]) = Lower(fx.made[j]) => i = j
        /\ \A i \in 1..Len(fx.made), k \in 1..Len(fx.snapshot) :
               Lower(fx.made[i]) # Lower(fx.snapshot[k])

\* Two items whose brands differ only in case and whose colors differ: each got
\* its own filament, and one vendor was created for both.
C38_Witness ==
    /\ fx.fn = "ensure" /\ Len(fx.used) = 2 /\ fx.failed = 0
    /\ fx.items[1].brand = "Acme" /\ fx.items[2].brand = "acme"
    /\ fx.snapshot = <<>>
    /\ fx.used = <<1, 2>>
    /\ fx.made = <<"Acme">>
    /\ fx.filaments[2].vendor = "Acme"

\* C39: session atomicity. When the session block of a tick is left normally, every
\* row the session wrote is in the cache afterwards; when an exception leaves it
\* (the tick returns to idle from inside the block), the cache tables are as they
\* were; in both cases the session holds the database no longer.
C39_SessionAtomic ==
    [][\A p \in Procs :
           /\ (pc[p] \in {"items", "usage"} /\ pc'[p] = "cleanup") =>
                  /\ \A u \in Uids :
                         (sess[p][u].present /\ u # Head(queue[p])) => cache'[u] = sess[p][u]
                  /\ \A u \in Uids : ~sess'[p][u].present
                  /\ dbWriter' # p
           /\ (pc[p] \in {"items", "usage"} /\ pc'[p] = "idle") =>
                  /\ cache' = cache
                  /\ cacheFilaments' = cacheFilaments
                  /\ \A u \in Uids : ~sess'[p][u].present
                  /\ dbWriter' # p]_vars

\* A tick was interrupted inside its session block after it had written the row of
\* A: the cache has no row for A and the database is free.
C39_Witness ==
    /\ ev.kind = "interrupt" /\ ev.at = "items"
    /\ "A" \in ev.succ
    /\ ~cache["A"].present
    /\ dbWriter = NoProc

====
